---- MODULE Spec2Model ----
(***************************************************************************)
(* State-machine model of study-sql: the two backend adapters              *)
(* (SQLiteDatabaseHandler, PostgreSQLDatabaseHandler), the unified         *)
(* DatabaseHandler of src/src/poetry_template/db.py and the handlers of    *)
(* src/src/poetry_template/main.py that drive it.                          *)
(*                                                                         *)
(* One DatabaseHandler object is tracked: the one DatabaseGUI.db_handler   *)
(* refers to.  Its adapter is described by `handler' (the variant held)    *)
(* and `connection' (adapter.connection / adapter.pool is not None).       *)
(* A connection that was opened, never closed and is no longer referenced  *)
(* by any object is counted in `orphans'; when the runtime finalises it is *)
(* the runtime's choice (action Finalize).                                 *)
(*                                                                         *)
(* Query texts are sequences of symbols.  "%", "s", "?" and "'" are the    *)
(* single characters; every other symbol stands for a run of characters    *)
(* that contains none of them (a keyword chunk or a letter of a literal).  *)
(***************************************************************************)
EXTENDS Integers, Sequences, FiniteSets, TLC

\* ------------------------------------------------------------------ bounds
MaxId == 2
MaxClock == 1
MaxOrphans == 1
MaxLen == 4

\* ------------------------------------------------------------- data values
\* text values are sequences of symbols, like the query texts
Titles == {<<"t1">>, <<"t2">>}
Contents == {<<"c1">>}
NoTitle == <<>>
Backends == {"SQLite", "PostgreSQL"}
None == "None"

\* -------------------------------------------------- SQL texts of main.py
InsertSQL == <<"INSERT", "%", "s", "%", "s">>
UpdateSQL == <<"UPDATE", "%", "s", "%", "s", "%", "s">>
DeleteSQL == <<"DELETE", "%", "s">>
SelectAllSQL == <<"SELECT">>

\* ------------------------------------------------- placeholder rewriting
\* the text is passed on as it is
ReplaceNothing(q) == q

\* str.replace("%s", "?"): leftmost, non-overlapping occurrences.
RECURSIVE Replace(_)
Replace(q) ==
    IF Len(q) < 2 THEN q
    ELSE IF q[1] = "%" /\ q[2] = "s"
         THEN <<"?">> \o Replace(SubSeq(q, 3, Len(q)))
         ELSE <<q[1]>> \o Replace(Tail(q))

\* ------------------------------------------------------------ the engines
\* A statement is its keyword chunk followed by value slots; a slot is a
\* parameter marker or a quoted literal.  style "qmark" is sqlite3's
\* (marker "?"), style "format" is psycopg2's (marker "%s").
Marker == [marker |-> TRUE, lit |-> <<>>]
Literal(v) == [marker |-> FALSE, lit |-> v]
SyntaxError == [ok |-> FALSE, slots |-> <<>>]

ClosingQuote(q) ==
    LET S == {i \in 2..Len(q) : q[i] = "'"}
    IN  IF S = {} THEN 0 ELSE CHOOSE i \in S : \A j \in S : i <= j

RECURSIVE ParseFrom(_, _, _)
ParseFrom(q, style, acc) ==
    IF q = <<>> THEN [ok |-> TRUE, slots |-> acc]
    ELSE IF q[1] = "'"
         THEN LET c == ClosingQuote(q)
              IN  IF c = 0 THEN SyntaxError
                  ELSE ParseFrom(SubSeq(q, c + 1, Len(q)), style,
                                 Append(acc, Literal(SubSeq(q, 2, c - 1))))
    ELSE IF style = "qmark" /\ q[1] = "?"
         THEN ParseFrom(Tail(q), style, Append(acc, Marker))
    ELSE IF style = "format" /\ Len(q) >= 2 /\ q[1] = "%" /\ q[2] = "s"
         THEN ParseFrom(SubSeq(q, 3, Len(q)), style, Append(acc, Marker))
    ELSE SyntaxError

Markers(slots) == {i \in 1..Len(slots) : slots[i].marker}

\* the k-th marker takes the k-th parameter
Bind(slots, params) ==
    [i \in 1..Len(slots) |->
        IF slots[i].marker
        THEN params[Cardinality({j \in Markers(slots) : j <= i})]
        ELSE slots[i].lit]

Ids(rows) == {r.id : r \in rows}

\* auto-assigned primary key: one more than the largest id in the table
AutoId(rows) ==
    IF rows = {} THEN 1
    ELSE 1 + (CHOOSE m \in Ids(rows) : \A i \in Ids(rows) : i <= m)

NewRow(rows, title, content, now) ==
    [id |-> AutoId(rows), title |-> title, content |-> content,
     created_at |-> now, updated_at |-> now]

\* str.upper() on a keyword chunk (the engines read keywords in any letter
\* case); the other symbols are written in capitals or carry no letters
Upper(sym) ==
    CASE sym \in {"select", "Select"} -> "SELECT"
      [] sym = "insert" -> "INSERT"
      [] sym = "drop" -> "DROP"
      [] OTHER -> sym

\* value slots each statement form takes: INSERT (title, content),
\* UPDATE (title, content, id), DELETE (id), SELECT all or by title,
\* DROP TABLE documents
Arity == [k \in {"INSERT", "UPDATE", "DELETE", "SELECT", "DROP"} |->
            CASE k = "INSERT" -> {2} [] k = "UPDATE" -> {3}
              [] k = "DELETE" -> {1} [] k = "DROP" -> {0} [] OTHER -> {0, 1}]

\* effect of one statement on the documents table
Apply(kind, v, rows, now) ==
    CASE kind = "INSERT" ->
            [rows |-> rows \cup {NewRow(rows, v[1], v[2], now)}, out |-> {}]
      [] kind = "UPDATE" ->
            [rows |-> {IF r.id = v[3]
                       THEN [r EXCEPT !.title = v[1], !.content = v[2],
                                      !.updated_at = now]
                       ELSE r : r \in rows},
             out |-> {}]
      [] kind = "DELETE" ->
            [rows |-> {r \in rows : r.id # v[1]}, out |-> {}]
      [] kind = "DROP" ->
            [rows |-> {}, out |-> {}]
      [] OTHER ->
            [rows |-> rows,
             out |-> IF Len(v) = 0 THEN rows ELSE {r \in rows : r.title = v[1]}]

\* what cursor.execute gives: err is "ok" or the engine's error; rows and
\* exists are the table's contents and existence if the transaction is
\* committed
Refused(e, exists, rows) ==
    [err |-> e, rows |-> rows, out |-> {}, exists |-> exists]

Applied(a, kind) ==
    [err |-> "ok", rows |-> a.rows, out |-> a.out, exists |-> kind # "DROP"]

\* the statement parsed into p, of the form kind
ExecuteParsed(p, kind, params, exists, rows, now) ==
    IF ~p.ok \/ kind \notin DOMAIN Arity THEN Refused("SyntaxError", exists, rows)
    ELSE IF Len(p.slots) \notin Arity[kind]
    THEN Refused("SyntaxError", exists, rows)
    ELSE IF Cardinality(Markers(p.slots)) # Len(params)
    THEN Refused("BindingError", exists, rows)
    ELSE IF ~exists THEN Refused("NoSuchTable", exists, rows)
    ELSE Applied(Apply(kind, Bind(p.slots, params), rows, now), kind)

\* cursor.execute(text, params) in a transaction that the caller ends
Execute(text, params, style, exists, rows, now) ==
    IF text = <<>> THEN Refused("SyntaxError", exists, rows)
    ELSE ExecuteParsed(ParseFrom(Tail(text), style, <<>>), Upper(text[1]),
                       params, exists, rows, now)

\* ------------------------------------------------------------------ state
VARIABLES
    use_postgres,       \* DatabaseHandler.use_postgres
    handler,            \* variant of DatabaseHandler.handler, or None
    connection,         \* the adapter's connection / pool is not None
    orphans,            \* open connections no object refers to any more
    file,               \* the embedded database file: "absent" or "present"
    tableExists,        \* per backend: the documents table exists
    rows,               \* per backend: the rows of the documents table
    initRuns,           \* times the initialization script ran to its end
    checked_out,        \* connections of the pool handed out and not returned
    clock,              \* the engines' CURRENT_TIMESTAMP
    is_postgres,        \* DatabaseGUI.is_postgres
    current_documents,  \* DatabaseGUI.current_documents
    route,              \* page.route: the screen shown
    op,                 \* the last operation and its arguments
    result,             \* its outcome: "ok", a value, or the error raised/shown
    calls,              \* the engine calls it made, in order ("close:error":
                        \* a close that raised)
    sent,               \* the statement text it handed to cursor.execute
    fetched,            \* the rows fetch_query returned to its caller
    api,                \* the calls a GUI handler made on db_handler, in order
    shown               \* the messages a GUI handler displayed, in order

vars == <<use_postgres, handler, connection, orphans, file, tableExists, rows,
          initRuns, checked_out, clock, is_postgres, current_documents, route,
          op, result, calls, sent, fetched, api, shown>>

\* the objects and databases an operation works on
World == [use_postgres |-> use_postgres, handler |-> handler,
          connection |-> connection, orphans |-> orphans, file |-> file,
          tableExists |-> tableExists, rows |-> rows, initRuns |-> initRuns,
          checked_out |-> checked_out]

Outcome(w, err, c) == [w |-> w, err |-> err, calls |-> c, sent |-> <<>>, out |-> {}]

\* what the environment lets a connection attempt do
ConnectOutcomes == {"ok", "mkdir_fail", "init_open_fail", "read_fail",
                    "script_fail", "open_fail"}

\* ------------------------------------------------- SQLiteDatabaseHandler
\* `with sqlite3.connect(...) as connection' commits or rolls back but does
\* not close: the initialization connection is left open and unreferenced.
SQLite_create_database(w, init_sql_path, o) ==
    IF o = "mkdir_fail" THEN Outcome(w, "OSError", <<"mkdir">>)
    ELSE IF ~init_sql_path THEN Outcome(w, "ok", <<"mkdir">>)
    ELSE IF o = "init_open_fail"
    THEN Outcome(w, "sqlite3.Error", <<"mkdir", "connect">>)
    ELSE IF o = "read_fail"
    THEN Outcome([w EXCEPT !.file = "present", !.orphans = @ + 1],
                 "OSError", <<"mkdir", "connect", "rollback">>)
    ELSE IF o = "script_fail"
    THEN Outcome([w EXCEPT !.file = "present", !.orphans = @ + 1],
                 "sqlite3.Error", <<"mkdir", "connect", "executescript", "rollback">>)
    ELSE Outcome([w EXCEPT !.file = "present", !.orphans = @ + 1,
                           !.tableExists.SQLite = TRUE, !.rows.SQLite = {},
                           !.initRuns = @ + 1],
                 "ok", <<"mkdir", "connect", "executescript", "commit">>)

\* sqlite3.connect(self.database_path) after the creation step gave c
SQLite_open(w, c, o) ==
    IF c.err # "ok" THEN c
    ELSE IF o = "open_fail"
    THEN Outcome(c.w, "sqlite3.Error", c.calls \o <<"connect">>)
    ELSE Outcome([c.w EXCEPT !.file = "present", !.connection = TRUE,
                             !.orphans = @ + (IF w.connection THEN 1 ELSE 0)],
                 "ok", c.calls \o <<"connect">>)

\* connect without the `if not Path(...).exists()' test
SQLite_connect_always_creates(w, init_sql_path, o) ==
    SQLite_open(w, SQLite_create_database(w, init_sql_path, o), o)

\* connect() of the adapter `w.handler' refers to (w.connection is its field)
SQLite_connect(w, init_sql_path, o) ==
    SQLite_open(w,
                IF w.file = "absent"
                THEN SQLite_create_database(w, init_sql_path, o)
                ELSE Outcome(w, "ok", <<>>),
                o)

SQLite_is_connected(w) == w.connection

\* the statement runs but its transaction is never committed
SQLite_scope_no_commit(w, text, e, rowsOut) ==
    [w |-> w, err |-> e.err, calls |-> <<"execute">>, sent |-> text, out |-> {}]

\* a statement the engine refuses costs the adapter its connection
SQLite_scope_drops_connection(w, text, e, rowsOut) ==
    IF e.err = "ok"
    THEN [w |-> [w EXCEPT !.rows.SQLite = e.rows,
                          !.tableExists.SQLite = e.exists],
          err |-> "ok", calls |-> <<"execute", "commit">>, sent |-> text,
          out |-> IF rowsOut THEN e.out ELSE {}]
    ELSE [w |-> [w EXCEPT !.connection = FALSE], err |-> e.err,
          calls |-> <<"execute", "rollback">>, sent |-> text, out |-> {}]

\* `with self.connection:' around a statement that gave e: commit on normal
\* exit, rollback when it raised.  The rows are handed out by fetch_query.
SQLite_scope(w, text, e, rowsOut) ==
    IF e.err = "ok"
    THEN [w |-> [w EXCEPT !.rows.SQLite = e.rows,
                          !.tableExists.SQLite = e.exists],
          err |-> "ok", calls |-> <<"execute", "commit">>, sent |-> text,
          out |-> IF rowsOut THEN e.out ELSE {}]
    ELSE [w |-> w, err |-> e.err, calls |-> <<"execute", "rollback">>,
          sent |-> text, out |-> {}]

\* the rewritten text run on the connection
SQLite_run(w, text, params, now, rowsOut) ==
    SQLite_scope(w, text,
                 Execute(text, params, "qmark", w.tableExists.SQLite,
                         w.rows.SQLite, now),
                 rowsOut)

SQLite_execute_query(w, query, params, now) ==
    IF ~w.connection THEN Outcome(w, "RuntimeError:connection", <<>>)
    ELSE SQLite_run(w, Replace(query), params, now, FALSE)

SQLite_fetch_query(w, query, params, now) ==
    IF ~w.connection THEN Outcome(w, "RuntimeError:connection", <<>>)
    ELSE SQLite_run(w, Replace(query), params, now, TRUE)

\* close without the `if self.connection' test
SQLite_close_unguarded(w, closeOk) ==
    Outcome([w EXCEPT !.connection = FALSE], "ok", <<"close">>)

\* an error of connection.close() is logged and swallowed, the field kept
SQLite_close_connection(w, closeOk) ==
    IF w.connection
    THEN Outcome([w EXCEPT !.connection = ~closeOk], "ok",
                 <<IF closeOk THEN "close" ELSE "close:error">>)
    ELSE Outcome(w, "ok", <<>>)

\* --------------------------------------------- PostgreSQLDatabaseHandler
\* the pool's bounds: SimpleConnectionPool(minconn=1, maxconn=20, dsn)
minconn == 1
maxconn == 20

\* SimpleConnectionPool(minconn=1, maxconn=20, dsn): opens the pool, with
\* none of its connections handed out, or raises
PostgreSQL_connect(w, o) ==
    IF o = "open_fail" THEN Outcome(w, "psycopg2.Error", <<"connect">>)
    ELSE Outcome([w EXCEPT !.connection = TRUE, !.checked_out = 0,
                           !.orphans = @ + (IF w.connection THEN 1 ELSE 0)],
                 "ok", <<"connect">>)

PostgreSQL_is_connected(w) == w.connection

\* the connection is returned after a statement that succeeded only
PostgreSQL_scope_without_finally(w, text, e) ==
    IF e.err = "ok"
    THEN [w |-> [w EXCEPT !.rows.PostgreSQL = e.rows,
                          !.tableExists.PostgreSQL = e.exists],
          err |-> "ok", calls |-> <<"getconn", "execute", "commit", "putconn">>,
          sent |-> text, out |-> e.out]
    ELSE [w |-> [w EXCEPT !.checked_out = @ + 1], err |-> e.err,
          calls |-> <<"getconn", "execute", "rollback">>,
          sent |-> text, out |-> {}]

\* conn = pool.getconn(); the statement gave e; commit or rollback;
\* finally: pool.putconn(conn)
PostgreSQL_scope(w, text, e) ==
    IF e.err = "ok"
    THEN [w |-> [w EXCEPT !.rows.PostgreSQL = e.rows,
                          !.tableExists.PostgreSQL = e.exists],
          err |-> "ok", calls |-> <<"getconn", "execute", "commit", "putconn">>,
          sent |-> text, out |-> e.out]
    ELSE [w |-> w, err |-> e.err,
          calls |-> <<"getconn", "execute", "rollback", "putconn">>,
          sent |-> text, out |-> {}]

\* a pool with maxconn connections handed out raises PoolError and hands
\* out nothing
PostgreSQL_run(w, query, params, now) ==
    IF ~w.connection THEN Outcome(w, "RuntimeError:connection", <<>>)
    ELSE IF w.checked_out >= maxconn
    THEN Outcome(w, "psycopg2.Error", <<"getconn">>)
    ELSE PostgreSQL_scope(w, query,
                          Execute(query, params, "format",
                                  w.tableExists.PostgreSQL, w.rows.PostgreSQL, now))

NoRows(r) == [r EXCEPT !.out = {}]

PostgreSQL_execute_query(w, query, params, now) ==
    NoRows(PostgreSQL_run(w, query, params, now))

PostgreSQL_fetch_query(w, query, params, now) ==
    PostgreSQL_run(w, query, params, now)

\* an error of pool.closeall() is logged and swallowed, the field kept
PostgreSQL_close_connection(w, closeOk) ==
    IF w.connection
    THEN Outcome([w EXCEPT !.connection = ~closeOk], "ok",
                 <<IF closeOk THEN "close" ELSE "close:error">>)
    ELSE Outcome(w, "ok", <<>>)

\* -------------------------------------------------------- DatabaseHandler
\* the initialization script DatabaseHandler._connect configures
init_sql_path == TRUE

\* the adapter under construction: the flag is stored, its connection field
\* starts as None
DH_new_adapter(w, up) == [w EXCEPT !.use_postgres = up, !.connection = FALSE]

\* self.handler = <the adapter constructed>, reached only when its __init__
\* (which connects, outcome c) raised nothing
DH_assign(w, up, c) ==
    IF c.err # "ok"
    THEN Outcome([c.w EXCEPT !.connection = w.connection], c.err, c.calls)
    ELSE Outcome([c.w EXCEPT !.handler = IF up THEN "PostgreSQL" ELSE "SQLite",
                             !.orphans = @ + (IF w.connection THEN 1 ELSE 0)],
                 "ok", c.calls)

\* _connect(use_postgres): the flag is stored first; the adapter is
\* constructed (its __init__ connects) and only then assigned to handler.
DH_connect(w, up, envOk, o) ==
    IF ~envOk THEN Outcome([w EXCEPT !.use_postgres = up], "KeyError", <<>>)
    ELSE DH_assign(w, up,
                   IF up THEN PostgreSQL_connect(DH_new_adapter(w, up), o)
                   ELSE SQLite_connect(DH_new_adapter(w, up), init_sql_path, o))

\* reports a handler without adapter as connected
DH_is_connected_by_default(w) ==
    IF w.handler = None THEN TRUE ELSE w.connection

DH_is_connected(w) ==
    IF w.handler = None THEN FALSE
    ELSE IF w.handler = "SQLite" THEN SQLite_is_connected(w)
    ELSE PostgreSQL_is_connected(w)

DH_close_connection(w, closeOk) ==
    IF w.handler = None THEN Outcome(w, "ok", <<>>)
    ELSE IF w.handler = "SQLite" THEN SQLite_close_connection(w, closeOk)
    ELSE PostgreSQL_close_connection(w, closeOk)

\* reconnect that forgets to close the adapter held
DH_reconnect_without_close(w, up, closeOk, envOk, o) ==
    DH_connect(w, up, envOk, o)

\* the engine calls made before those of outcome r
After(before, r) == [r EXCEPT !.calls = before \o @]

\* self._connect(use_postgres) once close_connection gave c
DH_reconnect_connect(c, up, envOk, o) ==
    After(c.calls, DH_connect(c.w, up, envOk, o))

DH_reconnect(w, up, closeOk, envOk, o) ==
    DH_reconnect_connect(DH_close_connection(w, closeOk), up, envOk, o)

\* delegation without the `if not self.handler' test
DH_execute_query_unchecked(w, query, params, now) ==
    IF w.handler = "PostgreSQL" THEN PostgreSQL_execute_query(w, query, params, now)
    ELSE SQLite_execute_query(w, query, params, now)

DH_execute_query(w, query, params, now) ==
    IF w.handler = None THEN Outcome(w, "RuntimeError:handler", <<>>)
    ELSE IF w.handler = "SQLite" THEN SQLite_execute_query(w, query, params, now)
    ELSE PostgreSQL_execute_query(w, query, params, now)

DH_fetch_query(w, query, params, now) ==
    IF w.handler = None THEN Outcome(w, "RuntimeError:handler", <<>>)
    ELSE IF w.handler = "SQLite" THEN SQLite_fetch_query(w, query, params, now)
    ELSE PostgreSQL_fetch_query(w, query, params, now)

\* ------------------------------------------------------------ DatabaseGUI
\* what a handler of the GUI did: the outcome r of its database work, the
\* query calls it made on db_handler and the messages it displayed
Call(method, text) == [method |-> method, text |-> text]
Msg(at, msg) == [at |-> at, msg |-> msg]
GUI(r, a, s) == [w |-> r.w, err |-> r.err, calls |-> r.calls, sent |-> r.sent,
                 out |-> r.out, api |-> a, shown |-> s]

\* an error of the fetch is caught and nothing is displayed
GUI_loaded_silently(f, cur) ==
    IF f.err = "ok"
    THEN GUI(f, <<Call("fetch_query", SelectAllSQL)>>,
             <<Msg("status_text", "Loaded")>>)
    ELSE GUI([f EXCEPT !.out = cur], <<Call("fetch_query", SelectAllSQL)>>, <<>>)

\* the list shown once fetch_query gave f
GUI_loaded(f, cur) ==
    IF f.err = "ok"
    THEN GUI(f, <<Call("fetch_query", SelectAllSQL)>>,
             <<Msg("status_text", "Loaded")>>)
    ELSE GUI([f EXCEPT !.out = cur], <<Call("fetch_query", SelectAllSQL)>>,
             <<Msg("status_text", f.err)>>)

\* load_documents: fetches the whole table when connected; its own errors
\* are caught and shown in the status text.  out is the new
\* current_documents (kept when nothing was fetched).
GUI_load_documents(w, cur, now) ==
    IF ~DH_is_connected(w)
    THEN GUI([Outcome(w, "ok", <<>>) EXCEPT !.out = cur], <<>>,
             <<Msg("status_text", "NotConnected")>>)
    ELSE GUI_loaded(DH_fetch_query(w, SelectAllSQL, <<>>, now), cur)

\* the statement (outcome e) succeeded and the list was refreshed (l)
GUI_done(e, l, query) ==
    GUI([w |-> l.w, err |-> "ok", calls |-> e.calls \o l.calls,
         sent |-> e.sent, out |-> l.out],
        <<Call("execute_query", query)>> \o l.api,
        <<Msg("snack_bar", "Done")>> \o l.shown)

\* after execute_query gave e: an error is caught and shown in a snack
\* bar, otherwise the list is refreshed
GUI_after_statement(e, cur, query, now) ==
    IF e.err # "ok"
    THEN GUI([e EXCEPT !.out = cur], <<Call("execute_query", query)>>,
             <<Msg("snack_bar", e.err)>>)
    ELSE GUI_done(e, GUI_load_documents(e.w, cur, now), query)

\* a workflow of DialogManager: one statement, then the list refresh
GUI_workflow(w, cur, query, params, now) ==
    GUI_after_statement(DH_execute_query(w, query, params, now), cur, query, now)

\* the new handler is kept (c: the close, n: the connect, l: the refresh)
GUI_connected(c, n, l) ==
    GUI([w |-> l.w, err |-> "ok", calls |-> c.calls \o n.calls \o l.calls,
         sent |-> <<>>, out |-> l.out],
        l.api, <<Msg("status_text", "Connected")>> \o l.shown)

\* after DatabaseHandler.connect gave n: an error is caught and shown in
\* the status text and db_handler stays the handler closed before (c);
\* otherwise the new handler replaces it and the list is loaded
GUI_after_connect(c, n, cur, now) ==
    IF n.err # "ok"
    THEN GUI([w |-> [n.w EXCEPT !.use_postgres = c.w.use_postgres,
                                !.handler = c.w.handler,
                                !.connection = c.w.connection],
              err |-> n.err, calls |-> c.calls \o n.calls, sent |-> <<>>,
              out |-> cur],
             <<>>, <<Msg("status_text", n.err)>>)
    ELSE GUI_connected(c, n,
                       GUI_load_documents(
                           [n.w EXCEPT !.orphans = @ + (IF c.w.connection THEN 1 ELSE 0)],
                           cur, now))

\* DatabaseHandler.connect(use_postgres=switch) on a new DatabaseHandler
GUI_after_close(c, cur, switch, envOk, o, now) ==
    GUI_after_connect(c,
                      DH_connect([c.w EXCEPT !.use_postgres = switch,
                                             !.handler = None,
                                             !.connection = FALSE],
                                 switch, envOk, o),
                      cur, now)

\* connect_to_database: closes the handler held if it is connected, builds a
\* new DatabaseHandler with DatabaseHandler.connect and keeps it only when
\* the connection succeeded; an error is caught and shown in the status text.
GUI_connect_to_database(w, cur, switch, closeOk, envOk, o, now) ==
    GUI_after_close(IF DH_is_connected(w) THEN DH_close_connection(w, closeOk)
                    ELSE Outcome(w, "ok", <<>>),
                    cur, switch, envOk, o, now)

\* page.go("/documents") placed after the try statement
GUI_route_after_connect_always(err, from) == "/documents"

\* page.go("/documents") is reached only when nothing was raised before it
GUI_route_after_connect(err, from) ==
    IF err = "ok" THEN "/documents" ELSE from

\* str.strip(): leading and trailing whitespace removed
Whitespace == {" ", "\n"}

RECURSIVE Strip(_)
Strip(text) ==
    IF text = <<>> THEN text
    ELSE IF text[1] \in Whitespace THEN Strip(Tail(text))
    ELSE IF text[Len(text)] \in Whitespace
         THEN Strip(SubSeq(text, 1, Len(text) - 1))
    ELSE text

\* the chunks in capitals whose letters begin with SELECT
SelectPrefixed == {"SELECT", "SELECTED"}

\* query.startswith("SELECT"), the letter case as entered
is_select_as_entered(query) == query # <<>> /\ query[1] \in SelectPrefixed

\* query.upper().startswith("SELECT")
is_select(query) == query # <<>> /\ Upper(query[1]) \in SelectPrefixed

\* the result text once fetch_query gave f
GUI_selected(f, query) ==
    GUI(f, <<Call("fetch_query", query)>>,
        <<Msg("query_result_text", IF f.err = "ok" THEN "Selected" ELSE f.err)>>)

\* the write (outcome e) succeeded and the whole table was fetched (t) for
\* the result table
GUI_refreshed(e, t, query) ==
    GUI([w |-> t.w, err |-> t.err, calls |-> e.calls \o t.calls,
         sent |-> e.sent, out |-> t.out],
        <<Call("execute_query", query), Call("fetch_query", SelectAllSQL)>>,
        <<Msg("query_result_text", "Executed")>>
        \o (IF t.err = "ok" THEN <<>> ELSE <<Msg("query_result_text", t.err)>>))

\* the result text once execute_query gave e
GUI_written(e, query, now) ==
    IF e.err # "ok"
    THEN GUI(e, <<Call("execute_query", query)>>,
             <<Msg("query_result_text", e.err)>>)
    ELSE GUI_refreshed(e, DH_fetch_query(e.w, SelectAllSQL, <<>>, now), query)

\* the stripped text: refused when empty, to fetch_query when it is a
\* SELECT, to execute_query otherwise
GUI_route_query(w, query, now) ==
    IF query = <<>>
    THEN GUI(Outcome(w, "EmptyQuery", <<>>), <<>>,
             <<Msg("query_result_text", "EmptyQuery")>>)
    ELSE IF is_select(query)
    THEN GUI_selected(DH_fetch_query(w, query, <<>>, now), query)
    ELSE GUI_written(DH_execute_query(w, query, <<>>, now), query, now)

\* execute_custom_query: the stripped text of the query field goes to
\* fetch_query when it is a SELECT and to execute_query otherwise (followed
\* by a fetch of the whole table for the result table); an empty text is
\* refused; an error is caught and shown in the result text.  out is the
\* content of the result table.
GUI_execute_custom_query(w, value, now) ==
    GUI_route_query(w, Strip(value), now)

\* ---------------------------------------------------------------- actions
InBounds(w) ==
    /\ w.orphans <= MaxOrphans
    /\ \A b \in Backends : Ids(w.rows[b]) \subseteq 1..MaxId

SetWorld(w) ==
    /\ InBounds(w)
    /\ use_postgres' = w.use_postgres
    /\ handler' = w.handler
    /\ connection' = w.connection
    /\ orphans' = w.orphans
    /\ file' = w.file
    /\ tableExists' = w.tableExists
    /\ rows' = w.rows
    /\ initRuns' = w.initRuns
    /\ checked_out' = w.checked_out

\* an operation of the handler API: the caller gets its result or error
Finish(r, name, args) ==
    /\ SetWorld(r.w)
    /\ op' = [name |-> name, args |-> args]
    /\ result' = r.err
    /\ calls' = r.calls
    /\ sent' = r.sent
    /\ fetched' = r.out
    /\ api' = <<>>
    /\ shown' = <<>>
    /\ UNCHANGED <<clock, is_postgres, current_documents, route>>

\* a handler of the GUI: the error is caught and shown, the list kept in
\* current_documents
FinishGUI(r, name, args, isPg) ==
    /\ SetWorld(r.w)
    /\ op' = [name |-> name, args |-> args]
    /\ result' = r.err
    /\ calls' = r.calls
    /\ sent' = r.sent
    /\ fetched' = {}
    /\ api' = r.api
    /\ shown' = r.shown
    /\ current_documents' = r.out
    /\ is_postgres' = isPg
    /\ UNCHANGED clock

Reconnect(up, closeOk, envOk, o) ==
    Finish(DH_reconnect(World, up, closeOk, envOk, o), "reconnect", <<up>>)

CloseConnection(closeOk) ==
    Finish(DH_close_connection(World, closeOk), "close_connection", <<>>)

IsConnected ==
    Finish(Outcome(World, IF DH_is_connected(World) THEN "True" ELSE "False", <<>>),
           "is_connected", <<>>)

\* connect() called again on the adapter held
AdapterConnect(o) ==
    /\ handler # None
    /\ Finish(IF handler = "SQLite" THEN SQLite_connect(World, init_sql_path, o)
              ELSE PostgreSQL_connect(World, o),
              "adapter.connect", <<>>)

ExecuteQuery(query, params) ==
    Finish(DH_execute_query(World, query, params, clock),
           "execute_query", <<query, params>>)

FetchQuery(query, params) ==
    Finish(DH_fetch_query(World, query, params, clock),
           "fetch_query", <<query, params>>)

\* the button of the connection screen
ConnectToDatabase(switch, closeOk, envOk, o) ==
    LET r == GUI_connect_to_database(World, current_documents, switch, closeOk,
                                     envOk, o, clock)
    IN  /\ route = "/connect"
        /\ FinishGUI(r, "connect_to_database", <<switch>>, switch)
        /\ route' = GUI_route_after_connect(r.err, route)

\* the refresh button of the document list
LoadDocuments ==
    /\ route = "/documents"
    /\ FinishGUI(GUI_load_documents(World, current_documents, clock),
                 "load_documents", <<>>, is_postgres)
    /\ UNCHANGED route

\* _save_new_document: an empty title is refused before any query
SaveNewDocument(title, content) ==
    /\ route = "/documents"
    /\ IF title = NoTitle
       THEN FinishGUI(GUI([Outcome(World, "TitleRequired", <<>>)
                              EXCEPT !.out = current_documents],
                          <<>>, <<Msg("snack_bar", "TitleRequired")>>),
                      "_save_new_document", <<title, content>>, is_postgres)
       ELSE FinishGUI(GUI_workflow(World, current_documents, InsertSQL,
                                   <<title, content>>, clock),
                      "_save_new_document", <<title, content>>, is_postgres)
    /\ UNCHANGED route

\* the detail dialog is opened from a row of current_documents
UpdateDocument(doc_id, title, content) ==
    /\ route = "/documents"
    /\ doc_id \in Ids(current_documents)
    /\ FinishGUI(GUI_workflow(World, current_documents, UpdateSQL,
                              <<title, content, doc_id>>, clock),
                 "_update_document", <<doc_id, title, content>>, is_postgres)
    /\ UNCHANGED route

ConfirmDelete(doc_id) ==
    /\ route = "/documents"
    /\ doc_id \in Ids(current_documents)
    /\ FinishGUI(GUI_workflow(World, current_documents, DeleteSQL, <<doc_id>>, clock),
                 "confirm_delete", <<doc_id>>, is_postgres)
    /\ UNCHANGED route

\* the run button of the query screen; the rows go to the result table
ExecuteCustomQuery(value) ==
    LET r == GUI_execute_custom_query(World, value, clock)
    IN  /\ route = "/query"
        /\ SetWorld(r.w)
        /\ op' = [name |-> "execute_custom_query", args |-> <<value>>]
        /\ result' = r.err
        /\ calls' = r.calls
        /\ sent' = r.sent
        /\ fetched' = r.out
        /\ api' = r.api
        /\ shown' = r.shown
        /\ UNCHANGED <<clock, is_postgres, current_documents, route>>

\* the menu of the document list and the back button of the query screen
Links == [from \in {"/connect", "/documents", "/query"} |->
            CASE from = "/documents" -> {"/connect", "/query"}
              [] from = "/query" -> {"/documents"}
              [] OTHER -> {}]

\* page.go(to) from a button or menu item, then route_change shows the view
Go(to) ==
    /\ to \in Links[route]
    /\ route' = to
    /\ op' = [name |-> "go", args |-> <<to>>]
    /\ result' = "ok"
    /\ calls' = <<>>
    /\ sent' = <<>>
    /\ fetched' = {}
    /\ api' = <<>>
    /\ shown' = <<>>
    /\ UNCHANGED <<use_postgres, handler, connection, orphans, file, tableExists,
                   rows, initRuns, checked_out, clock, is_postgres,
                   current_documents>>

\* the runtime finalises an unreferenced connection object, closing it
Finalize ==
    /\ orphans > 0
    /\ orphans' = orphans - 1
    /\ op' = [name |-> "finalize", args |-> <<>>]
    /\ result' = "ok"
    /\ calls' = <<"close">>
    /\ sent' = <<>>
    /\ fetched' = {}
    /\ api' = <<>>
    /\ shown' = <<>>
    /\ UNCHANGED <<use_postgres, handler, connection, file, tableExists, rows,
                   initRuns, checked_out, clock, is_postgres, current_documents,
                   route>>

\* time passes
Tick ==
    /\ clock < MaxClock
    /\ clock' = clock + 1
    /\ op' = [name |-> "tick", args |-> <<>>]
    /\ result' = "ok"
    /\ calls' = <<>>
    /\ sent' = <<>>
    /\ fetched' = {}
    /\ api' = <<>>
    /\ shown' = <<>>
    /\ UNCHANGED <<use_postgres, handler, connection, orphans, file, tableExists,
                   rows, initRuns, checked_out, is_postgres, current_documents,
                   route>>

\* ---------------------------------------------------------- specification
\* DatabaseGUI.__init__ on a machine where the embedded file does not exist
\* yet; the server's database has its documents table.
Init ==
    /\ use_postgres = FALSE
    /\ handler = None
    /\ connection = FALSE
    /\ orphans = 0
    /\ file = "absent"
    /\ tableExists = [b \in Backends |-> b = "PostgreSQL"]
    /\ rows = [b \in Backends |-> {}]
    /\ initRuns = 0
    /\ checked_out = 0
    /\ clock = 0
    /\ is_postgres = FALSE
    /\ current_documents = {}
    /\ route = "/connect"
    /\ op = [name |-> "__init__", args |-> <<>>]
    /\ result = "ok"
    /\ calls = <<>>
    /\ sent = <<>>
    /\ fetched = {}
    /\ api = <<>>
    /\ shown = <<>>

\* data the lifecycle specification draws from
MainTitle == <<"t1">>
MainContent == <<"c1">>
MainMaxId == 1

MainData == \A b \in Backends : Ids(rows'[b]) \subseteq 1..MainMaxId

\* the outcomes that differ in the current state: the engine's close is
\* only called on an open connection, the file is only created when absent,
\* and nothing is opened when an environment value is missing
CloseOutcomes == IF connection THEN BOOLEAN ELSE {TRUE}

OpenOutcomes(up) ==
    IF up \/ file = "present" THEN {"ok", "open_fail"} ELSE ConnectOutcomes

Attempts(up) ==
    {[envOk |-> FALSE, o |-> "ok"]} \cup [envOk : {TRUE}, o : OpenOutcomes(up)]

Next ==
    \/ \E up \in BOOLEAN, closeOk \in CloseOutcomes : \E a \in Attempts(up) :
          Reconnect(up, closeOk, a.envOk, a.o)
    \/ \E closeOk \in CloseOutcomes : CloseConnection(closeOk)
    \/ IsConnected
    \/ \E o \in OpenOutcomes(handler = "PostgreSQL") : AdapterConnect(o)
    \/ \E switch \in BOOLEAN, closeOk \in CloseOutcomes : \E a \in Attempts(switch) :
          ConnectToDatabase(switch, closeOk, a.envOk, a.o)
    \/ ExecuteQuery(InsertSQL, <<MainTitle, MainContent>>) /\ MainData
    \/ ExecuteQuery(DeleteSQL, <<1>>)
    \/ FetchQuery(SelectAllSQL, <<>>)
    \/ LoadDocuments
    \/ SaveNewDocument(MainTitle, MainContent) /\ MainData
    \/ \E i \in 1..MainMaxId : UpdateDocument(i, MainTitle, MainContent)
    \/ \E i \in 1..MainMaxId : ConfirmDelete(i)
    \/ \E to \in {"/connect", "/documents", "/query"} : Go(to)
    \/ Finalize

Spec == Init /\ [][Next]_vars

\* The document workflows on a connected handler, with time passing: the
\* state after a first successful connect_to_database to either backend
\* (for the embedded one, after the initialization connection was finalised).
InitData ==
    \E b \in Backends :
        /\ use_postgres = (b = "PostgreSQL")
        /\ handler = b
        /\ connection = TRUE
        /\ orphans = 0
        /\ file = IF b = "SQLite" THEN "present" ELSE "absent"
        /\ tableExists = [x \in Backends |-> x = "PostgreSQL" \/ b = "SQLite"]
        /\ rows = [x \in Backends |-> {}]
        /\ initRuns = IF b = "SQLite" THEN 1 ELSE 0
        /\ checked_out = 0
        /\ clock = 0
        /\ is_postgres = (b = "PostgreSQL")
        /\ current_documents = {}
        /\ route = "/documents"
        /\ op = IF b = "SQLite" THEN [name |-> "finalize", args |-> <<>>]
                ELSE [name |-> "connect_to_database", args |-> <<TRUE>>]
        /\ result = "ok"
        /\ calls = IF b = "SQLite" THEN <<"close">>
                   ELSE <<"connect", "getconn", "execute", "commit", "putconn">>
        /\ sent = <<>>
        /\ fetched = {}
        /\ api = IF b = "SQLite" THEN <<>>
                 ELSE <<Call("fetch_query", SelectAllSQL)>>
        /\ shown = IF b = "SQLite" THEN <<>>
                   ELSE <<Msg("status_text", "Connected"),
                          Msg("status_text", "Loaded")>>

NextData ==
    \/ \E t \in Titles \cup {NoTitle}, c \in Contents : SaveNewDocument(t, c)
    \/ \E i \in 1..MaxId, t \in Titles, c \in Contents : UpdateDocument(i, t, c)
    \/ \E i \in 1..MaxId : ConfirmDelete(i)
    \/ LoadDocuments
    \/ Tick

SpecData == InitData /\ [][NextData]_vars

\* Query texts handed to the embedded adapter: a SELECT followed by up to
\* MaxLen characters in which every quoted literal is closed, on a table
\* that may hold documents whose titles are the texts "%s" and "?".
ProbeChars == {"%", "s", "?", "'"}
ProbeTitles == {<<"%", "s">>, <<"?">>}

RECURSIVE TextsOfLength(_)
TextsOfLength(n) ==
    IF n = 0 THEN {<<>>}
    ELSE {Append(t, c) : t \in TextsOfLength(n - 1), c \in ProbeChars}

Quotes(t) == Cardinality({i \in DOMAIN t : t[i] = "'"})

ProbeTexts ==
    UNION {{<<"SELECT">> \o t : t \in {x \in TextsOfLength(n) : Quotes(x) % 2 = 0}} :
           n \in 0..MaxLen}

InitRewrite == InitData /\ handler = "SQLite"

\* A probe is a SELECT and leaves the table as it is: probing again right
\* after a probe reaches nothing a single probe does not.
ProbeReady == op.name \notin {"execute_query", "fetch_query"}

NextRewrite ==
    \/ \E q \in ProbeTexts, p \in {<<>>} \cup {<<t>> : t \in ProbeTitles} :
          ProbeReady /\ FetchQuery(q, p)
    \/ \E q \in ProbeTexts, p \in {<<>>} \cup {<<t>> : t \in ProbeTitles} :
          ProbeReady /\ ExecuteQuery(q, p)
    \/ \E t \in ProbeTitles, c \in Contents : SaveNewDocument(t, c)

SpecRewrite == InitRewrite /\ [][NextRewrite]_vars

\* The query operations and the ad-hoc console on a connected handler of
\* either backend: statements that succeed, statements the engine refuses
\* (a parameter missing, markers of the other engine, a dropped table) and
\* console texts in several letter cases, with and without surrounding
\* whitespace.
NativeInsertSQL == <<"INSERT", "?", "?">>
DropSQL == <<"DROP">>

QueryCalls ==
    {<<InsertSQL, <<t, c>>>> : t \in Titles, c \in Contents}
    \cup {<<InsertSQL, <<t>>>> : t \in Titles}
    \cup {<<NativeInsertSQL, <<t, c>>>> : t \in Titles, c \in Contents}
    \cup {<<UpdateSQL, <<t, c, i>>>> : t \in Titles, c \in Contents, i \in 1..MaxId}
    \cup {<<DeleteSQL, <<i>>>> : i \in 1..MaxId}
    \cup {<<SelectAllSQL, <<>>>>, <<DropSQL, <<>>>>}

PlainTexts ==
    {<<>>, SelectAllSQL, <<"select">>, <<"Select">>, <<"SELECTED">>,
     <<"SELECT", "'", "t1", "'">>, <<"SELECT", "'", "%", "s", "'">>,
     <<"INSERT", "'", "t1", "'", "'", "c1", "'">>,
     <<"insert", "'", "%", "s", "'", "'", "c1", "'">>,
     DropSQL, <<"drop">>, <<"EXPLAIN", "SELECT">>}

ConsoleTexts ==
    PlainTexts \cup {<<" ">> \o t \o <<"\n">> : t \in PlainTexts}

InitQuery == InitData

NextQuery ==
    \/ \E c \in QueryCalls : ExecuteQuery(c[1], c[2])
    \/ \E c \in QueryCalls : FetchQuery(c[1], c[2])
    \/ \E v \in ConsoleTexts : ExecuteCustomQuery(v)
    \/ \E to \in {"/connect", "/documents", "/query"} : Go(to)

SpecQuery == InitQuery /\ [][NextQuery]_vars

\* The application driven through its own buttons, menus and dialogs only,
\* from its start on the connection screen.
GuiTexts == {<<>>, <<" ">>, SelectAllSQL, <<"SELEKT">>, DropSQL,
             <<"INSERT", "'", "t1", "'", "'", "c1", "'">>}

NextGUI ==
    \/ \E switch \in BOOLEAN, closeOk \in CloseOutcomes : \E a \in Attempts(switch) :
          ConnectToDatabase(switch, closeOk, a.envOk, a.o)
    \/ \E to \in {"/connect", "/documents", "/query"} : Go(to)
    \/ LoadDocuments
    \/ \E t \in {MainTitle, NoTitle} : SaveNewDocument(t, MainContent) /\ MainData
    \/ \E i \in 1..MainMaxId : UpdateDocument(i, MainTitle, MainContent)
    \/ \E i \in 1..MainMaxId : ConfirmDelete(i)
    \/ \E v \in GuiTexts : ExecuteCustomQuery(v) /\ MainData
    \/ Finalize

SpecGUI == Init /\ [][NextGUI]_vars

\* ================================================================ claims
InCalls(c, x) == \E i \in DOMAIN c : c[i] = x
CloseCalls(c) == {i \in DOMAIN c : c[i] \in {"close", "close:error"}}
Workflows == {"_save_new_document", "_update_document", "confirm_delete",
              "load_documents"}

\* C1 (SpecData): on a connected handler every valid insert, update and delete
\* succeeds and the fetch of the whole table that follows it returns exactly
\* the expected rows: an insert adds one row with an id not in the table and
\* the title and content given, an update changes only the title, content
\* and updated_at of the row with that id, a delete removes only that row,
\* and a fetch of the table returns its rows (none, without error, when it
\* is empty).
C1_Step ==
    LET before == rows[handler]
        a == op'.args
        cur == current_documents'
    IN  /\ (op'.name = "_save_new_document" /\ a[1] # NoTitle) =>
              /\ result' = "ok"
              /\ \E r \in cur : /\ r.id \notin Ids(before)
                                /\ r.title = a[1]
                                /\ r.content = a[2]
                                /\ cur = before \cup {r}
              /\ Cardinality(cur) = Cardinality(before) + 1
        /\ op'.name = "_update_document" =>
              /\ result' = "ok"
              /\ {r \in cur : r.id # a[1]} = {r \in before : r.id # a[1]}
              /\ Cardinality(cur) = Cardinality(before)
              /\ \A r \in before : r.id = a[1] =>
                    \E n \in cur : /\ n.id = a[1]
                                   /\ n.title = a[2]
                                   /\ n.content = a[3]
                                   /\ n.created_at = r.created_at
        /\ op'.name = "confirm_delete" =>
              /\ result' = "ok"
              /\ cur = {r \in before : r.id # a[1]}
        /\ op'.name = "load_documents" =>
              /\ result' = "ok"
              /\ cur = before
        /\ (op'.name \in Workflows /\ result' = "ok") => rows'[handler] = cur

C1_CrudReflectedInFetch == [][C1_Step]_vars

\* a delete of the last row, after which the table is fetched empty
C1_Witness ==
    /\ op.name = "confirm_delete"
    /\ result = "ok"
    /\ InCalls(calls, "execute")
    /\ current_documents = {}
    /\ rows[handler] = {}

\* C2 as stated (Spec): after reconnect the handler is connected and the
\* adapter held before was closed, whatever the outcome of the new
\* connection attempt.
C2_ReconnectAlwaysConnected ==
    [][op'.name = "reconnect" =>
          /\ DH_is_connected(World')
          /\ connection => InCalls(calls', "close")]_vars

\* C2 as amended (Spec): reconnect first calls close_connection on the adapter
\* held (one engine close when it is open, none otherwise) and then tries to
\* open the requested backend.  When that succeeds the handler holds one
\* connected adapter of the requested variant; when it fails the error
\* propagates, the handler keeps the adapter it had and is connected only
\* if the engine's close had raised.
C2_ReconnectClosesThenConnects ==
    [][op'.name = "reconnect" =>
          /\ connection => (Len(calls') >= 1 /\ calls'[1] \in {"close", "close:error"})
          /\ Cardinality(CloseCalls(calls')) = IF connection THEN 1 ELSE 0
          /\ result' = "ok" =>
                /\ handler' = IF op'.args[1] THEN "PostgreSQL" ELSE "SQLite"
                /\ use_postgres' = op'.args[1]
                /\ DH_is_connected(World')
          /\ result' # "ok" =>
                /\ handler' = handler
                /\ DH_is_connected(World') => (connection /\ InCalls(calls', "close:error"))]_vars

\* a reconnect that closed the open adapter and opened the new one
C2_Witness ==
    /\ op.name = "reconnect"
    /\ result = "ok"
    /\ Len(calls) >= 2
    /\ calls[1] = "close"
    /\ InCalls(calls, "connect")
    /\ connection

\* C3 as stated (Spec): in every reachable state at most one connection or
\* pool is open and no open connection is left unreferenced.
C3_AtMostOneOpen ==
    /\ orphans + (IF connection THEN 1 ELSE 0) <= 1
    /\ orphans = 0

\* C4 (Spec): on a handler whose adapter reference is None, execute_query and
\* fetch_query raise the 'not initialized' error, make no engine call and
\* leave the handler and the databases as they were.
C4_NotInitialized ==
    [][(handler = None /\ op'.name \in {"execute_query", "fetch_query"}) =>
          /\ result' = "RuntimeError:handler"
          /\ calls' = <<>>
          /\ sent' = <<>>
          /\ World' = World]_vars

C4_Witness ==
    /\ handler = None
    /\ op.name = "execute_query"
    /\ result = "RuntimeError:handler"

\* C5 as stated (Spec): on a handler whose adapter reference is None,
\* is_connected and close_connection raise the 'not initialized' error.
C5_QueriesOfStateRaise ==
    [][(handler = None /\ op'.name \in {"is_connected", "close_connection"}) =>
          result' = "RuntimeError:handler"]_vars

\* C5 as amended (Spec): on a handler whose adapter reference is None,
\* is_connected returns False and close_connection returns normally; neither
\* raises, makes an engine call or changes any state.
C5_QueriesOfStateDoNotRaise ==
    [][(handler = None /\ op'.name \in {"is_connected", "close_connection"}) =>
          /\ result' = IF op'.name = "is_connected" THEN "False" ELSE "ok"
          /\ calls' = <<>>
          /\ World' = World]_vars

C5_Witness ==
    /\ handler = None
    /\ op.name = "is_connected"
    /\ result = "False"

\* C6 (Spec): a close_connection that closed the connection leaves
\* is_connected() False, and close_connection on an adapter already closed
\* (or on a handler without adapter) raises nothing, makes no engine call
\* and changes no state.
C6_CloseIdempotent ==
    [][op'.name = "close_connection" =>
          /\ InCalls(calls', "close") => ~DH_is_connected(World')
          /\ ~connection => /\ result' = "ok"
                            /\ calls' = <<>>
                            /\ World' = World]_vars

\* a close_connection on an adapter that had been closed before
C6_Witness ==
    /\ op.name = "close_connection"
    /\ handler # None
    /\ ~connection
    /\ calls = <<>>
    /\ result = "ok"

\* C7 as stated (Spec): connect() on an adapter that is already connected
\* leaves one open connection or pool and none opened and abandoned.
C7_ConnectIdempotent ==
    [][(op'.name = "adapter.connect" /\ connection) =>
          /\ connection'
          /\ orphans' = orphans]_vars

\* C8 (Spec): no operation runs the initialization script when the embedded
\* database file exists at the time it starts.
C8_NoInitOnExistingFile ==
    [][file = "present" =>
          /\ ~InCalls(calls', "executescript")
          /\ initRuns' = initRuns]_vars

\* a successful connect to the embedded backend that ran no script
C8_Witness ==
    /\ op.name \in {"reconnect", "connect_to_database"}
    /\ op.args = <<FALSE>>
    /\ result = "ok"
    /\ handler = "SQLite"
    /\ connection
    /\ InCalls(calls, "connect")
    /\ ~InCalls(calls, "executescript")

\* C9 as stated (Spec, starting without the file): whenever a working
\* connection to the embedded database is open, the initialization script
\* has been applied exactly once and the file carries the schema.
C9_InitAppliedOnce ==
    (handler = "SQLite" /\ connection) =>
        /\ initRuns = 1
        /\ tableExists["SQLite"]

\* The same text written with native markers: a "%s" is a marker only
\* outside a quoted literal; every other character is kept.
RECURSIVE NativeFrom(_, _)
NativeFrom(q, inQuote) ==
    IF q = <<>> THEN <<>>
    ELSE IF q[1] = "'" THEN <<"'">> \o NativeFrom(Tail(q), ~inQuote)
    ELSE IF ~inQuote /\ Len(q) >= 2 /\ q[1] = "%" /\ q[2] = "s"
         THEN <<"?">> \o NativeFrom(SubSeq(q, 3, Len(q)), inQuote)
         ELSE <<q[1]>> \o NativeFrom(Tail(q), inQuote)

Native(q) == NativeFrom(q, FALSE)

\* C10 as stated (SpecRewrite): rewriting the text handed to the engine once
\* more changes nothing, and a text executes on the embedded adapter as the
\* same text written with native markers and run on the engine directly
\* does: the engine gets that text, with no other character changed, and
\* gives the same result.
C10_RewriteIdempotentAndExact ==
    [][op'.name \in {"execute_query", "fetch_query"} =>
          LET q == op'.args[1]
              n == Execute(Native(q), op'.args[2], "qmark", tableExists["SQLite"],
                           rows["SQLite"], clock)
          IN  /\ Replace(sent') = sent'
              /\ sent' = Native(q)
              /\ result' = n.err
              /\ rows'["SQLite"] = n.rows
              /\ op'.name = "fetch_query" => fetched' = n.out]_vars

\* the errors cursor.execute raises
EngineErrors == {"SyntaxError", "BindingError", "NoSuchTable"}
Queries == {"execute_query", "fetch_query"}

\* C11 (SpecQuery): on the embedded adapter with its connection open, every
\* execute_query/fetch_query runs the statement and ends its scope with a
\* commit when it succeeded and a rollback when the engine raised; in that
\* case the engine's error reaches the caller, the table is what it was,
\* the connection stays open, and a fetch of the existing table issued next
\* succeeds.
C11_RollbackKeepsTableAndConnection ==
    [][(handler = "SQLite" /\ connection /\ op'.name \in Queries) =>
          /\ calls' = <<"execute", IF result' = "ok" THEN "commit" ELSE "rollback">>
          /\ result' # "ok" =>
                /\ result' \in EngineErrors
                /\ rows' = rows
                /\ tableExists' = tableExists
                /\ connection'
                /\ handler' = handler
          /\ (op.name \in Queries /\ result \in EngineErrors
              /\ op' = [name |-> "fetch_query", args |-> <<SelectAllSQL, <<>>>>]
              /\ tableExists["SQLite"]) =>
                /\ result' = "ok"
                /\ fetched' = rows["SQLite"]]_vars

\* a statement with a missing parameter refused on a table holding
\* documents, the connection still open
C11_Witness ==
    /\ handler = "SQLite"
    /\ connection
    /\ op.name = "execute_query"
    /\ result = "BindingError"
    /\ calls = <<"execute", "rollback">>
    /\ rows["SQLite"] # {}

\* connections handed out and not yet returned after the first k engine
\* calls of an operation
Held(c, k) ==
    Cardinality({i \in 1..k : c[i] = "getconn"})
    - Cardinality({i \in 1..k : c[i] = "putconn"})

\* C12 (SpecQuery): on the server-pool adapter with its pool open, every
\* execute_query/fetch_query takes exactly one connection from the pool,
\* first of all, and returns it, last of all, whether the statement
\* succeeded or the engine raised; before and after every operation no
\* connection is handed out, and during any operation at most one is, which
\* is within the pool's bound.
C12_CheckoutAlwaysReturned ==
    [][/\ checked_out = 0
       /\ checked_out' = 0
       /\ \A k \in 0..Len(calls') :
             checked_out + Held(calls', k) \in 0..1 /\ 1 <= maxconn
       /\ (handler = "PostgreSQL" /\ connection /\ op'.name \in Queries) =>
             /\ Len(calls') >= 2
             /\ calls'[1] = "getconn"
             /\ calls'[Len(calls')] = "putconn"
             /\ Cardinality({i \in DOMAIN calls' : calls'[i] = "getconn"}) = 1
             /\ Cardinality({i \in DOMAIN calls' : calls'[i] = "putconn"}) = 1]_vars

\* a statement the engine refused on the pool, its connection returned
C12_Witness ==
    /\ handler = "PostgreSQL"
    /\ connection
    /\ op.name = "execute_query"
    /\ result \in EngineErrors
    /\ calls = <<"getconn", "execute", "rollback", "putconn">>
    /\ checked_out = 0

\* a text of whitespace only (or of nothing)
Blank(v) == \A i \in DOMAIN v : v[i] \in Whitespace

\* the text between the first and the last character that is not
\* whitespace
Entered(v) ==
    LET S == {i \in DOMAIN v : v[i] \notin Whitespace}
    IN  SubSeq(v, CHOOSE i \in S : \A j \in S : i <= j,
                  CHOOSE i \in S : \A j \in S : j <= i)

\* the words whose letters begin with SELECT in some letter case
SelectWords == {"SELECT", "select", "Select", "SELECTED"}

Methods(a) == {a[i].method : i \in DOMAIN a}

\* C13 (SpecQuery): the console refuses a text of whitespace only with a
\* prompt and calls nothing; a text whose first word begins with SELECT in
\* any letter case goes to fetch_query, once, and execute_query is not
\* called; every other text goes to execute_query, once and first, and
\* fetch_query gets only the fixed SELECT of the whole table after it.
C13_ConsoleRoutesEveryText ==
    [][op'.name = "execute_custom_query" =>
          LET v == op'.args[1]
          IN  /\ Blank(v) =>
                    /\ api' = <<>>
                    /\ calls' = <<>>
                    /\ shown' = <<Msg("query_result_text", "EmptyQuery")>>
                    /\ World' = World
              /\ (~Blank(v) /\ Entered(v)[1] \in SelectWords) =>
                    /\ api' = <<Call("fetch_query", Entered(v))>>
                    /\ "execute_query" \notin Methods(api')
              /\ (~Blank(v) /\ Entered(v)[1] \notin SelectWords) =>
                    /\ Len(api') \in 1..2
                    /\ api'[1] = Call("execute_query", Entered(v))
                    /\ \A i \in 2..Len(api') :
                          api'[i] = Call("fetch_query", SelectAllSQL)]_vars

\* a SELECT in small letters between whitespace, fetched
C13_Witness ==
    /\ op = [name |-> "execute_custom_query", args |-> <<<<" ", "select", "\n">>>>]
    /\ api = <<Call("fetch_query", <<"select">>)>>
    /\ result = "ok"

\* C14 as stated (SpecQuery): for every text that is not blank, the
\* statement text the console hands to the engine of the active backend is
\* the entered text, character for character.
C14_ConsoleTextVerbatim ==
    [][(op'.name = "execute_custom_query" /\ ~Blank(op'.args[1])) =>
          sent' = Entered(op'.args[1])]_vars

\* C15 as stated (SpecData): the document an insert adds has created_at and
\* updated_at set and equal, and after an update through the update
\* workflow, whenever it is issued, the list fetched shows the document
\* with the new title and an updated_at strictly later than its created_at.
C15_UpdatedStrictlyLater ==
    [][/\ (op'.name = "_save_new_document" /\ result' = "ok") =>
             \A r \in current_documents' :
                 r.id \notin Ids(rows[handler]) =>
                     /\ r.created_at \in 0..MaxClock
                     /\ r.updated_at = r.created_at
       /\ (op'.name = "_update_document" /\ result' = "ok") =>
             \A r \in current_documents' :
                 r.id = op'.args[1] =>
                     /\ r.title = op'.args[2]
                     /\ r.updated_at > r.created_at]_vars

\* the handlers behind the user's actions, and where each shows an error
GuiOps == {"connect_to_database", "load_documents", "_save_new_document",
           "_update_document", "confirm_delete", "execute_custom_query"}

ShownAt(name) ==
    CASE name \in {"connect_to_database", "load_documents"} -> "status_text"
      [] name = "execute_custom_query" -> "query_result_text"
      [] OTHER -> "snack_bar"

\* what the handler and the engines raise
Errors == EngineErrors \cup {"KeyError", "OSError", "sqlite3.Error",
                             "psycopg2.Error", "RuntimeError:handler",
                             "RuntimeError:connection"}

\* the action a user can take on each screen whatever the databases' state
SomeUserAction ==
    \/ ConnectToDatabase(FALSE, TRUE, FALSE, "ok")
    \/ LoadDocuments
    \/ ExecuteCustomQuery(<<>>)

C17_CloseFailurePropagates ==
    [][(op'.name = "close_connection" /\ InCalls(calls', "close:error")) =>
          result' # "ok"]_vars

\* C18 as stated (Spec): after every operation, a DatabaseHandler that holds
\* an adapter has use_postgres true exactly when the adapter is the
\* server-pool variant, and after every connect_to_database the GUI's
\* is_postgres agrees in the same way with the adapter of its db_handler.
C18_FlagsAgreeWithAdapter ==
    [][/\ handler' # None => use_postgres' = (handler' = "PostgreSQL")
       /\ (op'.name = "connect_to_database" /\ handler' # None) =>
             is_postgres' = (handler' = "PostgreSQL")]_vars

\* C19 (SpecGUI): with navigation through the application's own controls
\* from the connection screen, the document list and the query screen are
\* shown only while db_handler.is_connected() is True; the only step that
\* leaves the connection screen is a connect_to_database that succeeded;
\* and one that failed, having closed the connection held, stays on it.
C19_ScreensOnlyWhileConnected ==
    [][/\ route' \in {"/documents", "/query"} => DH_is_connected(World')
       /\ (route = "/connect" /\ route' # "/connect") =>
             /\ op'.name = "connect_to_database"
             /\ result' = "ok"
             /\ route' = "/documents"
       /\ (op'.name = "connect_to_database" /\ result' # "ok") =>
             /\ route' = "/connect"
             /\ connection => InCalls(calls', "close") \/ InCalls(calls', "close:error")]_vars

\* back on the connection screen from the list, a connect attempt closed
\* the connection held and failed
C19_Witness ==
    /\ op.name = "connect_to_database"
    /\ result \in Errors
    /\ InCalls(calls, "close")
    /\ handler # None
    /\ ~DH_is_connected(World)
    /\ route = "/connect"

====
